---- MODULE Spec2Model ----
(***************************************************************************)
(* Inventory-management REST service (src/main.py) over a relational store *)
(* (src/Models/Models.py), with the request models of                      *)
(* src/Models/ApiModels.py.                                                *)
(*                                                                         *)
(* Every table is a function from primary key to row.  One action models   *)
(* one HTTP handler run to completion on its own session: validation,      *)
(* the write, the commit and the ORM cascades.  `last` records the handler *)
(* that ran last and the answer it gave.                                   *)
(***************************************************************************)
EXTENDS Integers, FiniteSets, Sequences, TLC

VARIABLES categories, brands, platforms, products, sales, inventory, now, last,
          sessions

store == <<categories, brands, platforms, products, sales, inventory>>
vars == <<categories, brands, platforms, products, sales, inventory, now, last,
          sessions>>

(* ------------------------------ bounds -------------------------------- *)
MaxCategories == 1
MaxBrands == 1
MaxPlatforms == 1
MaxProducts == 2
MaxSales == 1
MaxInventory == 2
MaxNow == 2
TicksPerDay == 2
MaxStock == 1
MaxSold == 1
MaxPrice == 0
MaxSessions == 2

(* Optional[T]: None, or a value. *)
None == <<>>
Some(v) == <<v>>
Optional(S) == {None} \cup {Some(v) : v \in S}

(* Ids a request may carry: every id a row can have, and one more. *)
CategoryIds == 1..(MaxCategories + 1)
BrandIds == 1..(MaxBrands + 1)
PlatformIds == 1..(MaxPlatforms + 1)
ProductIds == 1..(MaxProducts + 1)
SaleIds == 1..(MaxSales + 1)
(* str values: sequences of characters, "" being <<>>. *)
Names == {<<>>, <<"a">>}
StockQuantities == (-1)..MaxStock
SoldQuantities == 0..MaxSold
Prices == (-1)..MaxPrice
SaleDates == {0}
(* Query(le=100): the page size cap of the list endpoints. *)
MaxLimit == 100
Limits == {0, 1, MaxLimit, MaxLimit + 1}
Offsets == {0, 1}

(* ------------------------------ store --------------------------------- *)
Max(S) == CHOOSE k \in S : \A j \in S : j <= k
Min(S) == CHOOSE k \in S : \A j \in S : k <= j

(* INTEGER PRIMARY KEY of SQLite: one more than the largest key in use. *)
NextId(table) == IF DOMAIN table = {} THEN 1 ELSE Max(DOMAIN table) + 1

Insert(table, row) == (NextId(table) :> row) @@ table
Remove(table, keys) == [k \in DOMAIN table \ keys |-> table[k]]

(* session.get(Entity, id) *)
Get(table, id) == IF id \in DOMAIN table THEN Some(id) ELSE None

(* The count without its where clause. *)
RefCountAll(table, id) == Cardinality(DOMAIN table)

(* None read as "no constraint", as the list endpoints read it. *)
RefCountNoneAny(table, id) ==
    IF id = None THEN Cardinality(DOMAIN table)
    ELSE Cardinality({k \in DOMAIN table : Some(k) = id})

(* select(func.count(pk)).where(pk == id); pk == None is "pk IS NULL",    *)
(* which no row of a primary key column satisfies.                        *)
RefCount(table, id) == Cardinality({k \in DOMAIN table : Some(k) = id})

(* datetime.now() bound to a Date column keeps year, month and day only. *)
Today == now \div TicksPerDay

(* The where clause with its two columns exchanged. *)
InvMatchingSwapped(product_id, platform_id) ==
    {k \in DOMAIN inventory : /\ inventory[k].platform_id = product_id
                              /\ inventory[k].product_id = platform_id}

(* Rows of Inventory with the given key; .first() takes the lowest rowid. *)
InvMatching(product_id, platform_id) ==
    {k \in DOMAIN inventory : /\ inventory[k].platform_id = platform_id
                              /\ inventory[k].product_id = product_id}

(* Relationship(..., cascade_delete=True): the rows session.delete() of   *)
(* the owners removes with them.                                          *)
ProductsOfCategory(cs) ==
    {p \in DOMAIN products : \E c \in cs : products[p].category_id = Some(c)}
ProductsOfBrand(bs) ==
    {p \in DOMAIN products : \E b \in bs : products[p].brand_id = Some(b)}
(* Product.sales without cascade_delete. *)
SalesNotCascaded(ps) == {}
SalesOfProduct(ps) == {s \in DOMAIN sales : sales[s].product_id \in ps}
(* Product.inventory without cascade_delete. *)
InventoryNotCascaded(ps) == {}
InventoryOfProduct(ps) == {i \in DOMAIN inventory : inventory[i].product_id \in ps}

(* session.delete(product) for every product of ps, then commit. *)
DeleteProducts(ps) ==
    /\ products' = Remove(products, ps)
    /\ sales' = Remove(sales, SalesOfProduct(ps))
    /\ inventory' = Remove(inventory, InventoryOfProduct(ps))

(* ------------------------------ answers ------------------------------- *)
Response(op, status, detail, result) ==
    [op |-> op, status |-> status, detail |-> detail, result |-> result,
     deleted |-> {}]

(* The answer of a handler that runs from its first line to its last in   *)
(* one step: the requests in flight stay where they are.                  *)
Answer(op, status, detail, result) ==
    /\ last' = Response(op, status, detail, result)
    /\ UNCHANGED sessions

(* A delete handler returns None; `deleted` keeps the rows its commit     *)
(* removed, as <<table, key>>.                                            *)
Deleted(op, rows) ==
    /\ last' = [op |-> op, status |-> 200, detail |-> "", result |-> None,
                deleted |-> rows]
    /\ UNCHANGED sessions

Rows(table, keys) == {<<table, k>> : k \in keys}
ProductRows(ps) ==
    Rows("products", ps) \cup Rows("sales", SalesOfProduct(ps))
        \cup Rows("inventory", InventoryOfProduct(ps))

(* raise HTTPException(...) before any write: the session is closed with  *)
(* nothing flushed.                                                       *)
Raise(op, status, detail) ==
    /\ Answer(op, status, detail, None)
    /\ UNCHANGED <<store, now>>

(* ------------------------------ field rules --------------------------- *)
(* The conditions under which a handler raises for a field. *)
StockQuantityInvalid(stock_quantity) == stock_quantity < 0
(* quantity_sold < 0 for quantity_sold <= 0. *)
QuantitySoldNegative(quantity_sold) == quantity_sold < 0
QuantitySoldInvalid(quantity_sold) == quantity_sold <= 0
(* The comparison of sale_price turned round. *)
SalePricePositive(sale_price) == sale_price > 0
SalePriceInvalid(sale_price) == sale_price < 0
NameInvalid(name) == Len(name) <= 0

(* ------------------------------ inventory ----------------------------- *)
NewInventory(item) ==
    [product_id |-> item.product_id, platform_id |-> item.platform_id,
     stock_quantity |-> item.stock_quantity, last_updated |-> Today]

(* The else branch without its assignment of stock_quantity. *)
OverwrittenStale(inv, item) == [inv EXCEPT !.last_updated = Today]
Overwritten(inv, item) ==
    [inv EXCEPT !.stock_quantity = item.stock_quantity, !.last_updated = Today]

update_inv(item) ==
    IF RefCount(products, Some(item.product_id)) # 1
    THEN Raise("update_inv", 404, "product_id is not valid.")
    ELSE IF RefCount(platforms, Some(item.platform_id)) # 1
    THEN Raise("update_inv", 404, "platform_id is not valid.")
    ELSE IF StockQuantityInvalid(item.stock_quantity)
    THEN Raise("update_inv", 404, "stock_quantity must be zero or more.")
    ELSE LET found == InvMatching(item.product_id, item.platform_id)
         IN /\ IF found = {}
               THEN /\ NextId(inventory) <= MaxInventory
                    /\ inventory' = Insert(inventory, NewInventory(item))
                    /\ Answer("update_inv", 200, "", Some(NextId(inventory)))
               ELSE /\ inventory' = [inventory EXCEPT
                          ![Min(found)] = Overwritten(inventory[Min(found)], item)]
                    /\ Answer("update_inv", 200, "", Some(Min(found)))
            /\ UNCHANGED <<categories, brands, platforms, products, sales, now>>

delete_inv(item) ==
    IF RefCount(products, Some(item.product_id)) # 1
    THEN Raise("delete_inv", 404, "product_id is not valid.")
    ELSE IF RefCount(platforms, Some(item.platform_id)) # 1
    THEN Raise("delete_inv", 404, "platform_id is not valid.")
    ELSE LET found == InvMatching(item.product_id, item.platform_id)
         IN /\ inventory' = IF found # {} THEN Remove(inventory, {Min(found)})
                                          ELSE inventory
            /\ Deleted("delete_inv",
                  IF found # {} THEN Rows("inventory", {Min(found)}) ELSE {})
            /\ UNCHANGED <<categories, brands, platforms, products, sales, now>>

(* update_inv as two requests' threads run it: FastAPI runs a def handler  *)
(* in a worker thread with a Session of its own, so another request may   *)
(* run between the handler's select and its commit. sessions[s] is None,  *)
(* or the request body and the object the select returned.                *)
Sessions == 1..MaxSessions

(* .first() of the select: None, or the Inventory object, of which the    *)
(* flush uses the primary key and the stock_quantity it was loaded with.  *)
Selected(item) ==
    LET found == InvMatching(item.product_id, item.platform_id)
    IN IF found = {}
       THEN None
       ELSE Some([inventory_id |-> Min(found),
                  stock_quantity |-> inventory[Min(found)].stock_quantity])

(* The validations and the select. *)
update_inv_select(s, item) ==
    /\ sessions[s] = None
    /\ IF RefCount(products, Some(item.product_id)) # 1
       THEN Raise("update_inv", 404, "product_id is not valid.")
       ELSE IF RefCount(platforms, Some(item.platform_id)) # 1
       THEN Raise("update_inv", 404, "platform_id is not valid.")
       ELSE IF StockQuantityInvalid(item.stock_quantity)
       THEN Raise("update_inv", 404, "stock_quantity must be zero or more.")
       ELSE /\ sessions' = [sessions EXCEPT
                  ![s] = Some([item |-> item, inv |-> Selected(item)])]
            /\ UNCHANGED <<store, now, last>>

(* The select run again at the commit. *)
LoadedAtCommit(s) == Selected(sessions[s][1].item)
(* `inv` at `if not inv`: what the select returned. *)
Loaded(s) == sessions[s][1].inv

(* The UPDATE the flush emits for a loaded object: it sets the columns    *)
(* whose assigned value differs from the loaded one. A datetime never     *)
(* equals the loaded date, so last_updated is always set.                 *)
Flushed(row, loaded, item) ==
    [row EXCEPT !.stock_quantity = IF item.stock_quantity # loaded.stock_quantity
                                   THEN item.stock_quantity
                                   ELSE @,
                !.last_updated = Today]

(* From `if not inv` to the return. An UPDATE whose primary key matches   *)
(* no row raises StaleDataError in the flush: an unhandled exception.     *)
update_inv_commit(s) ==
    /\ sessions[s] # None
    /\ sessions' = [sessions EXCEPT ![s] = None]
    /\ LET item == sessions[s][1].item
           inv == Loaded(s)
       IN IF inv = None
          THEN /\ NextId(inventory) <= MaxInventory
               /\ inventory' = Insert(inventory, NewInventory(item))
               /\ last' = Response("update_inv", 200, "", Some(NextId(inventory)))
          ELSE IF inv[1].inventory_id \notin DOMAIN inventory
          THEN /\ inventory' = inventory
               /\ last' = Response("update_inv", 500, "Internal Server Error", None)
          ELSE /\ inventory' = [inventory EXCEPT
                     ![inv[1].inventory_id] = Flushed(@, inv[1], item)]
               /\ last' = Response("update_inv", 200, "", Some(inv[1].inventory_id))
    /\ UNCHANGED <<categories, brands, platforms, products, sales, now>>

(* ------------------------------ product ------------------------------- *)
insert_prod(item) ==
    IF RefCount(categories, item.category_id) # 1
    THEN Raise("insert_prod", 404, "category_id is not valid.")
    ELSE IF RefCount(brands, item.brand_id) # 1
    THEN Raise("insert_prod", 404, "brand_id is not valid.")
    ELSE IF NameInvalid(item.product_name)
    THEN Raise("insert_prod", 404, "product_name must not be empty.")
    ELSE /\ NextId(products) <= MaxProducts
         /\ products' = Insert(products,
               [product_name |-> item.product_name,
                category_id |-> item.category_id,
                brand_id |-> item.brand_id])
         /\ Answer("insert_prod", 200, "", Some(NextId(products)))
         /\ UNCHANGED <<categories, brands, platforms, sales, inventory, now>>

(* .one() of a select without rows raises NoResultFound, which no handler *)
(* catches: the framework answers 500.                                    *)
update_prod(item) ==
    IF RefCount(categories, item.category_id) # 1
    THEN Raise("update_prod", 404, "category_id is not valid.")
    ELSE IF RefCount(brands, item.brand_id) # 1
    THEN Raise("update_prod", 404, "brand_id is not valid.")
    ELSE IF NameInvalid(item.product_name)
    THEN Raise("update_prod", 404, "product_name must not be empty.")
    ELSE IF item.product_id \notin DOMAIN products
    THEN Raise("update_prod", 500, "Internal Server Error")
    ELSE /\ products' = [products EXCEPT ![item.product_id] =
               [product_name |-> item.product_name,
                category_id |-> item.category_id,
                brand_id |-> item.brand_id]]
         /\ Answer("update_prod", 200, "", Some(item.product_id))
         /\ UNCHANGED <<categories, brands, platforms, sales, inventory, now>>

delete_prod(product_id) ==
    IF Get(products, product_id) # None
    THEN /\ DeleteProducts({product_id})
         /\ Deleted("delete_prod", ProductRows({product_id}))
         /\ UNCHANGED <<categories, brands, platforms, now>>
    ELSE Raise("delete_prod", 404,
               "product_id is not valid.")

(* ------------------------------ category ------------------------------ *)
add_category(item) ==
    IF NameInvalid(item.category_name)
    THEN Raise("add_category", 404, "category_name must not be empty.")
    ELSE /\ NextId(categories) <= MaxCategories
         /\ categories' = Insert(categories, [category_name |-> item.category_name])
         /\ Answer("add_category", 200, "", Some(NextId(categories)))
         /\ UNCHANGED <<brands, platforms, products, sales, inventory, now>>

update_category(category_id, item) ==
    IF NameInvalid(item.category_name)
       THEN Raise("update_category", 404, "category_name must not be empty.")
       ELSE IF Get(categories, category_id) = None
       THEN Raise("update_category", 404, "category_id is not valid.")
       ELSE /\ categories' = [categories EXCEPT
                  ![category_id].category_name = item.category_name]
            /\ Answer("update_category", 200, "", Some(category_id))
            /\ UNCHANGED <<brands, platforms, products, sales, inventory, now>>

delete_category(category_id) ==
    IF Get(categories, category_id) # None
    THEN /\ categories' = Remove(categories, {category_id})
         /\ DeleteProducts(ProductsOfCategory({category_id}))
         /\ Deleted("delete_category",
               Rows("categories", {category_id})
                   \cup ProductRows(ProductsOfCategory({category_id})))
         /\ UNCHANGED <<brands, platforms, now>>
    ELSE Raise("delete_category", 404,
               "category_id is not valid.")

(* ------------------------------ brand --------------------------------- *)
add_brand(item) ==
    IF NameInvalid(item.brand_name)
    THEN Raise("add_brand", 404, "brand_name must not be empty.")
    ELSE /\ NextId(brands) <= MaxBrands
         /\ brands' = Insert(brands, [brand_name |-> item.brand_name])
         /\ Answer("add_brand", 200, "", Some(NextId(brands)))
         /\ UNCHANGED <<categories, platforms, products, sales, inventory, now>>

update_brand(brand_id, item) ==
    IF NameInvalid(item.brand_name)
       THEN Raise("update_brand", 404, "brand_name must not be empty.")
       ELSE IF Get(brands, brand_id) = None
       THEN Raise("update_brand", 404, "brand_id is not valid.")
       ELSE /\ brands' = [brands EXCEPT ![brand_id].brand_name = item.brand_name]
            /\ Answer("update_brand", 200, "", Some(brand_id))
            /\ UNCHANGED <<categories, platforms, products, sales, inventory, now>>

delete_brand(brand_id) ==
    IF Get(brands, brand_id) # None
    THEN /\ brands' = Remove(brands, {brand_id})
         /\ DeleteProducts(ProductsOfBrand({brand_id}))
         /\ Deleted("delete_brand",
               Rows("brands", {brand_id}) \cup ProductRows(ProductsOfBrand({brand_id})))
         /\ UNCHANGED <<categories, platforms, now>>
    ELSE Raise("delete_brand", 404, "brand_id is not valid.")

(* ------------------------------ sale ---------------------------------- *)
SaleRow(item) ==
    [product_id |-> item.product_id, platform_id |-> item.platform_id,
     sale_date |-> item.sale_date, quantity_sold |-> item.quantity_sold,
     sale_price |-> item.sale_price]

add_sale(item) ==
    IF RefCount(products, Some(item.product_id)) # 1
    THEN Raise("add_sale", 404, "product_id is not valid.")
    ELSE IF RefCount(platforms, Some(item.platform_id)) # 1
    THEN Raise("add_sale", 404, "platform_id is not valid.")
    ELSE IF QuantitySoldInvalid(item.quantity_sold)
    THEN Raise("add_sale", 404, "quantity_sold must be greater than zero.")
    ELSE IF SalePriceInvalid(item.sale_price)
    THEN Raise("add_sale", 404, "sale_price can not be a negitive number.")
    ELSE /\ NextId(sales) <= MaxSales
         /\ sales' = Insert(sales, SaleRow(item))
         /\ Answer("add_sale", 200, "", Some(NextId(sales)))
         /\ UNCHANGED <<categories, brands, platforms, products, inventory, now>>

(* update_sale with the sale_price check moved behind the commit. *)
update_sale_late_check(sale_id, item) ==
    IF RefCount(products, Some(item.product_id)) # 1
    THEN Raise("update_sale", 404, "product_id is not valid.")
    ELSE IF RefCount(platforms, Some(item.platform_id)) # 1
    THEN Raise("update_sale", 404, "platform_id is not valid.")
    ELSE IF QuantitySoldInvalid(item.quantity_sold)
    THEN Raise("update_sale", 404, "quantity_sold must be greater than zero.")
    ELSE IF Get(sales, sale_id) = None
    THEN Raise("update_sale", 404, "sale_id is not valid.")
    ELSE /\ sales' = [sales EXCEPT ![sale_id] = SaleRow(item)]
         /\ IF SalePriceInvalid(item.sale_price)
            THEN Answer("update_sale", 404,
                        "sale_price can not be a negitive number.", None)
            ELSE Answer("update_sale", 200, "", Some(sale_id))
         /\ UNCHANGED <<categories, brands, platforms, products, inventory, now>>

update_sale(sale_id, item) ==
    IF RefCount(products, Some(item.product_id)) # 1
       THEN Raise("update_sale", 404, "product_id is not valid.")
       ELSE IF RefCount(platforms, Some(item.platform_id)) # 1
       THEN Raise("update_sale", 404, "platform_id is not valid.")
       ELSE IF QuantitySoldInvalid(item.quantity_sold)
       THEN Raise("update_sale", 404, "quantity_sold must be greater than zero.")
       ELSE IF SalePriceInvalid(item.sale_price)
       THEN Raise("update_sale", 404, "sale_price can not be a negitive number.")
       ELSE IF Get(sales, sale_id) = None
       THEN Raise("update_sale", 404, "sale_id is not valid.")
       ELSE /\ sales' = [sales EXCEPT ![sale_id] = SaleRow(item)]
            /\ Answer("update_sale", 200, "", Some(sale_id))
            /\ UNCHANGED <<categories, brands, platforms, products, inventory, now>>

delete_sale(sale_id) ==
    IF Get(sales, sale_id) # None
    THEN /\ sales' = Remove(sales, {sale_id})
         /\ Deleted("delete_sale", Rows("sales", {sale_id}))
         /\ UNCHANGED <<categories, brands, platforms, products, inventory, now>>
    ELSE Raise("delete_sale", 404, "sale_id is not valid.")

(* ------------------------------ lists --------------------------------- *)
(* The ids of S in rowid order, as a table scan yields them. *)
RECURSIVE Ordered(_)
Ordered(S) == IF S = {} THEN <<>> ELSE <<Min(S)>> \o Ordered(S \ {Min(S)})

(* .offset(offset).limit(limit): SQLite reads a negative LIMIT as no      *)
(* limit and a negative OFFSET as 0.                                      *)
Page(rows, offset, limit) ==
    LET first == IF offset < 0 THEN 1 ELSE offset + 1
        count == IF limit < 0 THEN Len(rows) ELSE limit
        stop == IF first + count - 1 > Len(rows) THEN Len(rows) ELSE first + count - 1
    IN SubSeq(rows, first, stop)

(* col(...).contains(sub): sub occurs in s. *)
Contains(s, sub) ==
    \E i \in 1..(Len(s) + 1) : \E j \in (i - 1)..Len(s) : SubSeq(s, i, j) = sub

(* Field constraints of the request models, checked before the handler.  *)
InvListValid(criteria) ==
    /\ criteria.min_stock_quantity = None \/ criteria.min_stock_quantity[1] > 0
    /\ criteria.max_stock_quantity = None \/ criteria.max_stock_quantity[1] > 0
    /\ criteria.limit > 0
    /\ criteria.limit <= MaxLimit
ProductListValid(item) == item.limit <= MaxLimit
SalesListValid(criteria) == criteria.limit <= MaxLimit

Listed(op, rows, offset, limit) ==
    /\ Answer(op, 200, "", Page(Ordered(rows), offset, limit))
    /\ UNCHANGED <<store, now>>

get_inv(criteria) ==
    IF ~InvListValid(criteria)
    THEN Raise("get_inv", 422, "validation error")
    ELSE Listed("get_inv",
            {k \in DOMAIN inventory :
                /\ criteria.product_id = None
                      \/ Some(inventory[k].product_id) = criteria.product_id
                /\ criteria.platform_id = None
                      \/ Some(inventory[k].platform_id) = criteria.platform_id
                /\ criteria.min_stock_quantity = None
                      \/ inventory[k].stock_quantity >= criteria.min_stock_quantity[1]
                /\ criteria.max_stock_quantity = None
                      \/ inventory[k].stock_quantity <= criteria.max_stock_quantity[1]},
            criteria.offset, criteria.limit)

get_prod(item) ==
    IF ~ProductListValid(item)
    THEN Raise("get_prod", 422, "validation error")
    ELSE Listed("get_prod",
            {k \in DOMAIN products :
                /\ item.product_id = None \/ Some(k) = item.product_id
                /\ item.product_name = None
                      \/ Contains(products[k].product_name, item.product_name[1])
                /\ item.category_id = None
                      \/ products[k].category_id = item.category_id
                /\ item.brand_id = None \/ products[k].brand_id = item.brand_id},
            item.offset, item.limit)

get_sales(criteria) ==
    IF ~SalesListValid(criteria)
    THEN Raise("get_sales", 422, "validation error")
    ELSE Listed("get_sales",
            {k \in DOMAIN sales :
                /\ criteria.product_id = None
                      \/ criteria.product_id = Some(sales[k].product_id)
                /\ criteria.platform_id = None
                      \/ criteria.platform_id = Some(sales[k].platform_id)
                /\ criteria.sale_date = None
                      \/ criteria.sale_date = Some(sales[k].sale_date)},
            criteria.offset, criteria.limit)

(* The wall clock behind datetime.now(), read in ticks of 1/TicksPerDay   *)
(* of a day: calls within one tick are made at instants of that tick.     *)
Tick ==
    /\ now < MaxNow
    /\ now' = now + 1
    /\ UNCHANGED <<store, last, sessions>>

(* ------------------------------ system -------------------------------- *)
(* create_db_and_tables() on a database file that holds the platforms: no *)
(* endpoint creates or deletes a Platform.                                *)
Init ==
    /\ categories = <<>>
    /\ brands = <<>>
    /\ platforms = [k \in 1..MaxPlatforms |-> [platform_name |-> <<"a">>]]
    /\ products = <<>>
    /\ sales = <<>>
    /\ inventory = <<>>
    /\ now = 0
    /\ last = [op |-> "none", status |-> 0, detail |-> "", result |-> None,
               deleted |-> {}]
    /\ sessions = [s \in 1..MaxSessions |-> None]

(* The request bodies and query models, under the names main.py imports  *)
(* them by (ApiModels.py declares InvUpdate, InvDelete, ProductInsert and *)
(* ProductUpdate without the Model suffix).                               *)
InvUpdateModel ==
    [product_id : ProductIds, platform_id : PlatformIds, stock_quantity : StockQuantities]
InvDeleteModel == [product_id : ProductIds, platform_id : PlatformIds]
ProductInsertModel ==
    [product_name : Names, category_id : Optional(CategoryIds),
     brand_id : Optional(BrandIds)]
ProductUpdateModel ==
    [product_id : ProductIds, product_name : Names,
     category_id : Optional(CategoryIds), brand_id : Optional(BrandIds)]
CategoryDataModel == [category_name : Names]
BrandDataModel == [brand_name : Names]
SalesDataModel ==
    [product_id : ProductIds, platform_id : PlatformIds, sale_date : SaleDates,
     quantity_sold : SoldQuantities, sale_price : Prices]

InvListModel ==
    [product_id : {None}, platform_id : {None},
     min_stock_quantity : Optional({0, 1}), max_stock_quantity : {None},
     offset : Offsets, limit : Limits]
ProductListModel ==
    [product_id : {None}, product_name : Optional({<<"a">>}),
     category_id : {None}, brand_id : {None},
     offset : Offsets, limit : Limits]
SalesListModel ==
    [product_id : {None}, platform_id : {None}, sale_date : Optional(SaleDates),
     offset : Offsets, limit : Limits]

Next ==
    \/ \E item \in InvUpdateModel : update_inv(item)
    \/ \E item \in InvDeleteModel : delete_inv(item)
    \/ \E item \in ProductInsertModel : insert_prod(item)
    \/ \E item \in ProductUpdateModel : update_prod(item)
    \/ \E product_id \in ProductIds : delete_prod(product_id)
    \/ \E item \in CategoryDataModel : add_category(item)
    \/ \E category_id \in CategoryIds, item \in CategoryDataModel :
          update_category(category_id, item)
    \/ \E category_id \in CategoryIds : delete_category(category_id)
    \/ \E item \in BrandDataModel : add_brand(item)
    \/ \E brand_id \in BrandIds, item \in BrandDataModel : update_brand(brand_id, item)
    \/ \E brand_id \in BrandIds : delete_brand(brand_id)
    \/ \E item \in SalesDataModel : add_sale(item)
    \/ \E sale_id \in SaleIds, item \in SalesDataModel : update_sale(sale_id, item)
    \/ \E sale_id \in SaleIds : delete_sale(sale_id)
    \/ \E criteria \in InvListModel : get_inv(criteria)
    \/ \E item \in ProductListModel : get_prod(item)
    \/ \E criteria \in SalesListModel : get_sales(criteria)
    \/ Tick

Spec == Init /\ [][Next]_vars

(* The inventory endpoints under concurrent requests: update_inv in its   *)
(* two steps, delete_inv, and the handlers that create what an Inventory  *)
(* row refers to.                                                         *)
NextRace ==
    \/ \E item \in CategoryDataModel : add_category(item)
    \/ \E item \in BrandDataModel : add_brand(item)
    \/ \E item \in ProductInsertModel : insert_prod(item)
    \/ \E item \in InvDeleteModel : delete_inv(item)
    \/ \E s \in Sessions, item \in InvUpdateModel : update_inv_select(s, item)
    \/ \E s \in Sessions : update_inv_commit(s)

SpecRace == Init /\ [][NextRace]_vars

(* ====================================================================== *)
(* Properties                                                             *)
(* ====================================================================== *)
InvRowsOf(inv, product_id, platform_id) ==
    {k \in DOMAIN inv : /\ inv[k].product_id = product_id
                        /\ inv[k].platform_id = platform_id}
Ok == last'.status = 200
Rejected == last'.status # 200 /\ store' = store

(* C1: with the handlers run one at a time, the store never holds two     *)
(* Inventory rows with the same (product_id, platform_id).                *)
InventoryKeyUnique ==
    \A i \in DOMAIN inventory : \A j \in DOMAIN inventory :
        (/\ inventory[i].product_id = inventory[j].product_id
         /\ inventory[i].platform_id = inventory[j].platform_id) => i = j

(* An upsert has just filled the table with rows of two different keys. *)
InventoryTwoKeys ==
    /\ last.op = "update_inv"
    /\ last.status = 200
    /\ Cardinality(DOMAIN inventory) = 2

(* C2: a successful update_inv(p, f, q) leaves exactly one row for (p, f), *)
(* holding q: a new row when the key had none, else the same row          *)
(* overwritten in place; every other row is left as it was.               *)
UpsertSetsQuantity ==
    [][(last'.op = "update_inv" /\ Ok) =>
        \A item \in InvUpdateModel :
            update_inv(item) =>
                LET before == InvRowsOf(inventory, item.product_id, item.platform_id)
                    after == InvRowsOf(inventory', item.product_id, item.platform_id)
                IN /\ item.product_id \in DOMAIN products
                   /\ item.platform_id \in DOMAIN platforms
                   /\ item.stock_quantity >= 0
                   /\ Cardinality(after) = 1
                   /\ \A k \in after :
                         inventory'[k].stock_quantity = item.stock_quantity
                   /\ before = {} => /\ after \cap DOMAIN inventory = {}
                                     /\ DOMAIN inventory' = DOMAIN inventory \cup after
                   /\ before # {} => /\ after = before
                                     /\ DOMAIN inventory' = DOMAIN inventory
                   /\ \A k \in DOMAIN inventory \ before :
                         k \in DOMAIN inventory' /\ inventory'[k] = inventory[k]
    ]_vars

(* The upsert answered with row 1 while a younger row 2 exists: row 1 was *)
(* overwritten in place, and holds the quantity 1 of the request.         *)
UpsertOverwrote ==
    /\ last.op = "update_inv"
    /\ last.status = 200
    /\ last.result = Some(1)
    /\ DOMAIN inventory = {1, 2}
    /\ inventory[1].stock_quantity = 1

(* C3: update_inv and add_sale with a product_id or platform_id that      *)
(* names no row answer with an error and leave the store as it was.       *)
UnknownReference(item) ==
    \/ item.product_id \notin DOMAIN products
    \/ item.platform_id \notin DOMAIN platforms
UnknownReferenceRejected ==
    [][/\ last'.op = "update_inv" =>
            \/ Rejected
            \/ \A item \in InvUpdateModel :
                  ~(UnknownReference(item) /\ update_inv(item))
       /\ last'.op = "add_sale" =>
            \/ Rejected
            \/ \A item \in SalesDataModel :
                  ~(UnknownReference(item) /\ add_sale(item))
    ]_vars

(* add_sale named an existing product and a platform that does not exist. *)
UnknownPlatformSale ==
    /\ last.op = "add_sale"
    /\ last.status = 404
    /\ last.detail = "platform_id is not valid."
    /\ DOMAIN products # {}

(* C4: a successful delete_category(c) removes the category, every        *)
(* Product of it, and every Sale and Inventory row of those Products.     *)
CategoryDeleteCascades ==
    [][(last'.op = "delete_category" /\ Ok) =>
        \A c \in CategoryIds :
            delete_category(c) =>
                LET gone == {p \in DOMAIN products : products[p].category_id = Some(c)}
                IN /\ c \notin DOMAIN categories'
                   /\ gone \cap DOMAIN products' = {}
                   /\ \A p \in DOMAIN products' : products'[p].category_id # Some(c)
                   /\ \A k \in DOMAIN sales' : sales'[k].product_id \notin gone
                   /\ \A k \in DOMAIN inventory' : inventory'[k].product_id \notin gone
    ]_vars

(* delete_category took a Product, a Sale and an Inventory row with it. *)
CategoryDeleteTookDependents ==
    /\ last.op = "delete_category"
    /\ last.status = 200
    /\ \E r \in last.deleted : r[1] = "products"
    /\ \E r \in last.deleted : r[1] = "sales"
    /\ \E r \in last.deleted : r[1] = "inventory"

(* C5: with existing product and platform, add_sale rejects every         *)
(* quantity_sold <= 0 and every sale_price < 0, and accepts the           *)
(* boundaries quantity_sold = 1 and sale_price = 0 with a new Sale row.   *)
SaleBoundaries ==
    [][last'.op = "add_sale" =>
        /\ \/ Rejected
           \/ \A item \in SalesDataModel :
                 ~(/\ ~UnknownReference(item)
                   /\ item.quantity_sold <= 0 \/ item.sale_price < 0
                   /\ add_sale(item))
        /\ \/ Ok
           \/ \A item \in SalesDataModel :
                 ~(/\ ~UnknownReference(item)
                   /\ \/ item.quantity_sold = 1 /\ item.sale_price >= 0
                      \/ item.sale_price = 0 /\ item.quantity_sold > 0
                   /\ add_sale(item))
        /\ Ok => \A item \in SalesDataModel :
                    add_sale(item) =>
                        /\ \E k \in DOMAIN sales' \ DOMAIN sales :
                              /\ DOMAIN sales' = DOMAIN sales \cup {k}
                              /\ sales'[k] = SaleRow(item)
                        /\ \A k \in DOMAIN sales : sales'[k] = sales[k]
    ]_vars

(* add_sale stored a Sale of quantity 1 at price 0. *)
BoundarySaleStored ==
    /\ last.op = "add_sale"
    /\ last.status = 200
    /\ \E k \in DOMAIN sales : /\ last.result = Some(k)
                               /\ sales[k].quantity_sold = 1
                               /\ sales[k].sale_price = 0

(* C6: every stored Inventory row has stock_quantity >= 0 and every       *)
(* stored Sale row has quantity_sold > 0 and sale_price >= 0.             *)
StoredFieldsInRange ==
    /\ \A k \in DOMAIN inventory : inventory[k].stock_quantity >= 0
    /\ \A k \in DOMAIN sales : /\ sales[k].quantity_sold > 0
                               /\ sales[k].sale_price >= 0

(* update_sale rewrote a Sale while an Inventory row of stock 0 exists. *)
SaleRewrittenAtBounds ==
    /\ last.op = "update_sale"
    /\ last.status = 200
    /\ \E k \in DOMAIN sales : sales[k].sale_price = 0
    /\ \E k \in DOMAIN inventory : inventory[k].stock_quantity = 0

Resolves(id, table) == id # None /\ id[1] \in DOMAIN table
NotFound == last'.status = 404 /\ store' = store
ValidSale(item) ==
    /\ item.product_id \in DOMAIN products
    /\ item.platform_id \in DOMAIN platforms
    /\ item.quantity_sold > 0
    /\ item.sale_price >= 0
ValidProduct(item) ==
    /\ Resolves(item.category_id, categories)
    /\ Resolves(item.brand_id, brands)
    /\ Len(item.product_name) > 0

(* The update and delete handlers that look their target up with          *)
(* session.get: an absent target id answers 404 and changes no row.       *)
MissingTargetNotFoundByGet ==
    \/ NotFound
    \/ /\ last'.op = "update_category" =>
             \A id \in CategoryIds \ DOMAIN categories : \A item \in CategoryDataModel :
                 ~(Len(item.category_name) > 0 /\ update_category(id, item))
       /\ last'.op = "update_brand" =>
             \A id \in BrandIds \ DOMAIN brands : \A item \in BrandDataModel :
                 ~(Len(item.brand_name) > 0 /\ update_brand(id, item))
       /\ last'.op = "update_sale" =>
             \A id \in SaleIds \ DOMAIN sales : \A item \in SalesDataModel :
                 ~(ValidSale(item) /\ update_sale(id, item))
       /\ last'.op = "delete_category" =>
             \A id \in CategoryIds \ DOMAIN categories : ~delete_category(id)
       /\ last'.op = "delete_brand" =>
             \A id \in BrandIds \ DOMAIN brands : ~delete_brand(id)
       /\ last'.op = "delete_prod" =>
             \A id \in ProductIds \ DOMAIN products : ~delete_prod(id)
       /\ last'.op = "delete_sale" =>
             \A id \in SaleIds \ DOMAIN sales : ~delete_sale(id)

MissingProduct(item) == item.product_id \notin DOMAIN products /\ ValidProduct(item)

(* C7: an update or a delete of a Category, Brand, Product or Sale whose  *)
(* target id is not in the store, with otherwise valid fields, answers    *)
(* 404 and changes no row.                                                *)
MissingTargetNotFound ==
    [][/\ MissingTargetNotFoundByGet
       /\ last'.op = "update_prod" =>
             \/ NotFound
             \/ \A item \in ProductUpdateModel :
                   ~(MissingProduct(item) /\ update_prod(item))
    ]_vars

(* What holds of C7: seven of the eight handlers answer 404, and          *)
(* update_prod on an absent product answers 500; none changes a row.      *)
MissingTargetNoWrite ==
    [][/\ MissingTargetNotFoundByGet
       /\ last'.op = "update_prod" =>
             \/ last'.status = 500 /\ store' = store
             \/ \A item \in ProductUpdateModel :
                   ~(MissingProduct(item) /\ update_prod(item))
    ]_vars

(* C8: insert_prod and update_prod with a category_id or brand_id that is *)
(* None or names no row answer with an error and write nothing; a product *)
(* is written only with both resolved, and holds them.                    *)
Unresolved(item) ==
    ~(Resolves(item.category_id, categories) /\ Resolves(item.brand_id, brands))
ProductNeedsCategoryAndBrand ==
    [][/\ last'.op = "insert_prod" =>
             /\ \/ Rejected
                \/ \A item \in ProductInsertModel :
                      ~(Unresolved(item) /\ insert_prod(item))
             /\ Ok => \A item \in ProductInsertModel :
                         insert_prod(item) =>
                             /\ products'[NextId(products)].category_id
                                   = item.category_id
                             /\ products'[NextId(products)].brand_id = item.brand_id
       /\ last'.op = "update_prod" =>
             /\ \/ Rejected
                \/ \A item \in ProductUpdateModel :
                      ~(Unresolved(item) /\ update_prod(item))
             /\ Ok => \A item \in ProductUpdateModel :
                         update_prod(item) =>
                             /\ products'[item.product_id].category_id
                                   = item.category_id
                             /\ products'[item.product_id].brand_id = item.brand_id
    ]_vars

(* update_prod of an existing product was refused for its category_id     *)
(* while a category exists.                                               *)
ProductCategoryRefused ==
    /\ last.op = "update_prod"
    /\ last.status = 404
    /\ last.detail = "category_id is not valid."
    /\ DOMAIN categories # {}
    /\ DOMAIN products # {}

(* C9: a handler that answers with an error has written nothing: the      *)
(* rows of all six tables are what they were before the request.          *)
NoPartialCommit == [][last'.status # 200 => store' = store]_vars

(* update_sale refused a negative sale_price for a Sale that exists. *)
SaleUpdateRefused ==
    /\ last.op = "update_sale"
    /\ last.status = 404
    /\ last.detail = "sale_price can not be a negitive number."
    /\ DOMAIN sales # {}

LimitOutOfRange(limit) == ~(0 < limit /\ limit <= MaxLimit)

(* C10: get_inv, get_prod and get_sales answer a limit outside            *)
(* 0 < limit <= 100 with a validation error, before any query.            *)
ListLimitEnforced ==
    [][\/ last'.status = 422
       \/ /\ last'.op = "get_inv" =>
                \A criteria \in InvListModel :
                    ~(LimitOutOfRange(criteria.limit) /\ get_inv(criteria))
          /\ last'.op = "get_prod" =>
                \A item \in ProductListModel :
                    ~(LimitOutOfRange(item.limit) /\ get_prod(item))
          /\ last'.op = "get_sales" =>
                \A criteria \in SalesListModel :
                    ~(LimitOutOfRange(criteria.limit) /\ get_sales(criteria))
    ]_vars

(* What holds of C10: get_inv refuses every limit outside 0 < limit <=    *)
(* 100; get_prod and get_sales refuse only a limit above 100.             *)
ListLimitAsCoded ==
    [][/\ last'.op = "get_inv" =>
             \/ last'.status = 422
             \/ \A criteria \in InvListModel :
                   ~(LimitOutOfRange(criteria.limit) /\ get_inv(criteria))
       /\ last'.op = "get_prod" =>
             \/ last'.status = 422
             \/ \A item \in ProductListModel :
                   ~(item.limit > MaxLimit /\ get_prod(item))
       /\ last'.op = "get_sales" =>
             \/ last'.status = 422
             \/ \A criteria \in SalesListModel :
                   ~(criteria.limit > MaxLimit /\ get_sales(criteria))
    ]_vars

(* C13: with the handlers run one at a time, every Product names an       *)
(* existing Category and Brand, and every Sale and Inventory row names    *)
(* an existing Product and Platform, in every state.                      *)
ReferentialIntegrity ==
    /\ \A p \in DOMAIN products :
          /\ Resolves(products[p].category_id, categories)
          /\ Resolves(products[p].brand_id, brands)
    /\ \A k \in DOMAIN sales :
          /\ sales[k].product_id \in DOMAIN products
          /\ sales[k].platform_id \in DOMAIN platforms
    /\ \A k \in DOMAIN inventory :
          /\ inventory[k].product_id \in DOMAIN products
          /\ inventory[k].platform_id \in DOMAIN platforms

(* delete_prod took the Sale of its product with it; another product and  *)
(* its Inventory row remain.                                              *)
OwnerDeletedOthersRemain ==
    /\ last.op = "delete_prod"
    /\ last.status = 200
    /\ \E r \in last.deleted : r[1] = "sales"
    /\ DOMAIN products # {}
    /\ DOMAIN inventory # {}

(* C11: a successful update_inv on a key that already has a row (written  *)
(* by an earlier successful update_inv, the only writer of Inventory)     *)
(* leaves that row's last_updated strictly greater than it was.           *)
LastUpdatedStrictlyIncreases ==
    [][(last'.op = "update_inv" /\ Ok) =>
        \A k \in DOMAIN inventory :
            last'.result = Some(k) =>
                inventory'[k].last_updated > inventory[k].last_updated
    ]_vars

(* What update_inv does to last_updated: the row gets the calendar day of *)
(* the call, which is later than the stored one exactly when the earlier  *)
(* call was on an earlier day, and equal to it otherwise.                 *)
LastUpdatedIsCallDay ==
    [][(last'.op = "update_inv" /\ Ok) =>
        \A k \in DOMAIN inventory' :
            last'.result = Some(k) =>
                /\ inventory'[k].last_updated = Today
                /\ k \in DOMAIN inventory =>
                      inventory[k].last_updated <= inventory'[k].last_updated
    ]_vars

(* C12: the upsert is check-then-act with no guard. A request whose       *)
(* select found no row for its key inserts a row at its commit whatever   *)
(* the table holds by then, so the key gains a row even when another      *)
(* request has committed one in between; and a key comes to hold two rows *)
(* only through such a commit.                                            *)
UpsertCommitUnguarded ==
    [][/\ \A s \in Sessions :
            (sessions[s] # None /\ sessions'[s] = None
                                /\ sessions[s][1].inv = None) =>
                LET item == sessions[s][1].item
                    before == InvRowsOf(inventory, item.product_id, item.platform_id)
                    after == InvRowsOf(inventory', item.product_id, item.platform_id)
                IN /\ Ok
                   /\ before \subseteq after
                   /\ Cardinality(after) = Cardinality(before) + 1
                   /\ \A k \in after \ before :
                         inventory'[k].stock_quantity = item.stock_quantity
       /\ \A product_id \in ProductIds, platform_id \in PlatformIds :
            (/\ Cardinality(InvRowsOf(inventory, product_id, platform_id)) < 2
             /\ Cardinality(InvRowsOf(inventory', product_id, platform_id)) >= 2) =>
                \E s \in Sessions :
                    /\ sessions[s] # None /\ sessions'[s] = None
                    /\ sessions[s][1].inv = None
                    /\ sessions[s][1].item.product_id = product_id
                    /\ sessions[s][1].item.platform_id = platform_id
                    /\ InvRowsOf(inventory, product_id, platform_id) # {}
    ]_vars

(* Two interleaved upserts of one key have both answered 200 and left two *)
(* Inventory rows for it.                                                 *)
RaceLeftTwoRows ==
    /\ last.op = "update_inv"
    /\ last.status = 200
    /\ \A s \in Sessions : sessions[s] = None
    /\ \E k1, k2 \in DOMAIN inventory :
          /\ k1 # k2
          /\ inventory[k1].product_id = inventory[k2].product_id
          /\ inventory[k1].platform_id = inventory[k2].platform_id
====
